---- MODULE Spec2Model ----
(***************************************************************************)
(* A model of csvjoin.py: the column resolver (parse_column_name,          *)
(* get_field_list), the N-way join matcher (get_match_list), the           *)
(* expression compiler and evaluator (Expression) and the driver (main).   *)
(*                                                                         *)
(* A Python string is a sequence of one-character strings, so that         *)
(* split(':'), int(), the column-name regular expression, str.format and   *)
(* eval act on the characters.  Row, column and file indices are 0-based   *)
(* as in the source; At(s, i) reads element i of a Python list.            *)
(***************************************************************************)
EXTENDS Integers, Sequences, FiniteSets, TLC

VARIABLES pc, colnames_list, lines_list, join, join_field_list, ii,
          match_list, out_cols, expr_list, row, output, error

vars == <<pc, colnames_list, lines_list, join, join_field_list, ii,
          match_list, out_cols, expr_list, row, output, error>>

----------------------------------------------------------------------------
(* Bounds of the model *)

\* the longest table (data rows per input file)
MaxRows == 2

\* the most output-column specifications on a command line
MaxOutCols == 2

\* numbers of input files of the matcher's specification and of the driver's
JoinFileCounts == {2, 3}
MainFileCounts == {2}

----------------------------------------------------------------------------
(* Python lists and strings *)

At(s, i) == s[i + 1]

Range(n) == 0 .. (n - 1)

DigitChars == <<"0", "1", "2", "3", "4", "5", "6", "7", "8", "9">>

Digits == {DigitChars[n] : n \in 1..10}

\* the letters and the underscore that occur in the model's strings
Letters == {"a", "k", "v", "x", "z", "_"}

\* the class [\w\d_] of COLUMN_NAME_RE
WordChars == Digits \cup Letters

DigitVal(c) == (CHOOSE n \in 1..10 : DigitChars[n] = c) - 1

\* str.split(sep) for a one-character separator
RECURSIVE Split(_, _)
Split(s, sep) ==
    IF \A n \in 1..Len(s) : s[n] # sep
    THEN <<s>>
    ELSE LET p == CHOOSE n \in 1..Len(s) :
                     s[n] = sep /\ \A m \in 1..(n - 1) : s[m] # sep
         IN  <<SubSeq(s, 1, p - 1)>> \o Split(SubSeq(s, p + 1, Len(s)), sep)

\* whether int(s) succeeds: the model's strings hold no sign, blank or "_"
\* between digits
IsInt(s) == Len(s) > 0 /\ \A n \in 1..Len(s) : s[n] \in Digits

RECURSIVE IntOf(_)
IntOf(s) ==
    IF Len(s) = 0 THEN 0
    ELSE 10 * IntOf(SubSeq(s, 1, Len(s) - 1)) + DigitVal(s[Len(s)])

\* str(n) of a non-negative int
RECURSIVE StrOf(_)
StrOf(n) ==
    IF n < 10 THEN <<DigitChars[n + 1]>>
    ELSE StrOf(n \div 10) \o <<DigitChars[(n % 10) + 1]>>

\* list.index(x): the first position of x, 0-based
IndexOf(s, x) == (CHOOSE n \in 1..Len(s) : s[n] = x /\ \A m \in 1..(n - 1) : s[m] # x) - 1

\* sequences over S of length at most n
SeqsUpTo(S, n) == UNION {[1..m -> S] : m \in 0..n}

\* results of a call: a value, or the exception it raises
Ok(v) == [exc |-> "", val |-> v]
Raise(e) == [exc |-> e, val |-> <<>>]

----------------------------------------------------------------------------
(* Column resolver *)

\* the length of the match of \d+\:[\w\d_]+ that starts at position p of s
\* (1-based), or 0 when none starts there; both repetitions are greedy
RECURSIVE RunLen(_, _, _)
RunLen(s, p, class) ==
    IF p <= Len(s) /\ s[p] \in class THEN 1 + RunLen(s, p + 1, class) ELSE 0

ColumnNameMatchLen(s, p) ==
    LET d == RunLen(s, p, Digits)
        w == RunLen(s, p + d + 1, WordChars)
    IN  IF d > 0 /\ p + d <= Len(s) /\ s[p + d] = ":" /\ w > 0
        THEN d + 1 + w
        ELSE 0

is_column_name(colname) ==
    Len(colname) > 0 /\ ColumnNameMatchLen(colname, 1) = Len(colname)

\* parse_column_name: (i, index of the field in header i), or the exception
parse_column_name(colname, colnames) ==
    LET parts == Split(colname, ":")
    IN  IF Len(parts) # 2 THEN Raise("ValueError")
        ELSE IF ~IsInt(parts[1]) THEN Raise("ValueError")
        ELSE LET i == IntOf(parts[1])
                 field == parts[2]
             IN  IF i >= Len(colnames) THEN Raise("IndexError")
                 ELSE IF \A n \in 1..Len(At(colnames, i)) : At(colnames, i)[n] # field
                      THEN Raise("ValueError")
                 ELSE Ok(<<i, IndexOf(At(colnames, i), field)>>)

\* the loop of get_field_list over the join entries: the dictionary
\* join_columns after the entries from position n on, or the first exception.
\* A later entry for the same file replaces an earlier one.
RECURSIVE JoinColumns(_, _, _, _)
JoinColumns(join_list, n, colnames, acc) ==
    IF n > Len(join_list) THEN Ok(acc)
    ELSE LET r == parse_column_name(join_list[n], colnames)
         IN  IF r.exc = "ValueError" THEN Raise("UnknownColumn")
             ELSE IF r.exc # "" THEN Raise(r.exc)
             ELSE JoinColumns(join_list, n + 1, colnames,
                              [k \in (DOMAIN acc) \cup {r.val[1]} |->
                                  IF k = r.val[1] THEN r.val[2] ELSE acc[k]])

\* get_field_list: the join column of every file, in file order.
\* options.join is None when --join is absent, and len(None) raises.
get_field_list(numfiles, join_opt, colnames) ==
    IF ~join_opt.given THEN Raise("TypeError")
    ELSE IF numfiles # Len(join_opt.list) THEN Raise("AssertionError")
    ELSE LET r == JoinColumns(join_opt.list, 1, colnames, <<>>)
         IN  IF r.exc # "" THEN r
             ELSE IF Range(numfiles) # DOMAIN r.val THEN Raise("AssertionError")
             ELSE Ok([n \in 1..numfiles |-> r.val[n - 1]])

----------------------------------------------------------------------------
(* Join matcher: get_match_list *)

NumFiles == Len(lines_list)

\* the cell in the join column of row j of table i
JoinCell(i, j) == At(At(At(lines_list, i), j), At(join_field_list, i))


\* a cell string without a trailing ".0": the number it would be coerced to
Coerced(cell) ==
    IF Len(cell) > 2 /\ cell[Len(cell) - 1] = "." /\ cell[Len(cell)] = "0"
    THEN SubSeq(cell, 1, Len(cell) - 2)
    ELSE cell

\* a faulty variant of JoinValuesEqual: the cells are compared as numbers
JoinValuesEqualCoerced(jv, join_value) == Coerced(jv) = Coerced(join_value)

\* the comparison jv == join_value of two cell strings
JoinValuesEqual(jv, join_value) == jv = join_value


\* a faulty variant of no_finished_list: only table 0's counter is tested
no_finished_first(counters, tables) == At(counters, 0) < Len(At(tables, 0))

\* the loop condition: no table's counter has reached the end of its table
no_finished_list(counters, tables) ==
    \A i \in Range(Len(counters)) : At(counters, i) < Len(At(tables, i))


\* a faulty variant of ScanStart: every scan starts at the first row
ScanStartZero(i) == 0

\* the row the inner for loop starts from in table i
ScanStart(i) == At(ii, i)

NoRow == -1


\* a faulty variant of ScanTable: only the row at the start is tried, no forward scan
ScanTableAtCursor(i, join_value) ==
    IF /\ ScanStart(i) < Len(At(lines_list, i))
       /\ JoinValuesEqual(JoinCell(i, ScanStart(i)), join_value)
    THEN ScanStart(i)
    ELSE NoRow

\* the inner for loop over table i: the first row at or after the start whose
\* join cell equals join_value, or NoRow when the loop runs into its else
ScanTable(i, join_value) ==
    LET hits == {j \in ScanStart(i) .. (Len(At(lines_list, i)) - 1) :
                    JoinValuesEqual(JoinCell(i, j), join_value)}
    IN  IF hits = {} THEN NoRow
        ELSE CHOOSE j \in hits : \A h \in hits : j <= h

\* the join value of table 0's current row
CurrentJoinValue == JoinCell(0, At(ii, 0))

\* match_found after the outer for loop
MatchFoundAll ==
    \A i \in 1 .. (NumFiles - 1) : ScanTable(i, CurrentJoinValue) # NoRow

\* the list match when every table matched
CurrentMatch ==
    [n \in 1..NumFiles |->
        IF n = 1 THEN At(ii, 0) ELSE ScanTable(n - 1, CurrentJoinValue)]


\* a faulty variant of NextCounters: only table 0 moves past its matched row
NextCountersFirstOnly(match) ==
    [n \in 1..Len(match) |-> IF n = 1 THEN match[n] + 1 ELSE match[n]]

\* the counters after a match: ii = [i+1 for i in match]
NextCounters(match) == [n \in 1..Len(match) |-> match[n] + 1]


\* a faulty variant of SkipCounters: every counter moves on
SkipCountersAll(counters) == [n \in 1..Len(counters) |-> counters[n] + 1]

\* the counters after a row of table 0 that found no match: ii[0] += 1
SkipCounters(counters) == [counters EXCEPT ![1] = @ + 1]

\* ii = [0] * len(lines_list); match_list = []
MatchInit ==
    /\ pc = "get_match_list"
    /\ ii' = [n \in 1..NumFiles |-> 0]
    /\ match_list' = <<>>
    /\ pc' = "while"
    /\ UNCHANGED <<colnames_list, lines_list, join, join_field_list, out_cols,
                   expr_list, row, output, error>>

\* one pass of the while loop that ends in "continue"
MatchNotFound ==
    /\ pc = "while"
    /\ no_finished_list(ii, lines_list)
    /\ ~MatchFoundAll
    /\ ii' = SkipCounters(ii)
    /\ UNCHANGED <<pc, colnames_list, lines_list, join, join_field_list,
                   match_list, out_cols, expr_list, row, output, error>>

\* one pass of the while loop that appends a match
MatchFound ==
    /\ pc = "while"
    /\ no_finished_list(ii, lines_list)
    /\ MatchFoundAll
    /\ match_list' = Append(match_list, CurrentMatch)
    /\ ii' = NextCounters(CurrentMatch)
    /\ UNCHANGED <<pc, colnames_list, lines_list, join, join_field_list,
                   out_cols, expr_list, row, output, error>>

\* the loop condition fails: return match_list
MatchReturn ==
    /\ pc = "while"
    /\ ~no_finished_list(ii, lines_list)
    /\ pc' = "compile"
    /\ UNCHANGED <<colnames_list, lines_list, join, join_field_list, ii,
                   match_list, out_cols, expr_list, row, output, error>>

----------------------------------------------------------------------------
(* Expression: compilation of an output-column specification *)

\* the substrings of colname that COLUMN_NAME_RE matches, as re.finditer
\* yields them: leftmost first, not overlapping
RECURSIVE ColumnNameMatches(_, _)
ColumnNameMatches(colname, p) ==
    IF p > Len(colname) THEN <<>>
    ELSE LET m == ColumnNameMatchLen(colname, p)
         IN  IF m > 0
             THEN <<SubSeq(colname, p, p + m - 1)>> \o ColumnNameMatches(colname, p + m)
             ELSE ColumnNameMatches(colname, p + 1)

\* colname with every matched span replaced by "{}"
RECURSIVE Template(_, _)
Template(colname, p) ==
    IF p > Len(colname) THEN <<>>
    ELSE LET m == ColumnNameMatchLen(colname, p)
         IN  IF m > 0
             THEN <<"{", "}">> \o Template(colname, p + m)
             ELSE <<colname[p]>> \o Template(colname, p + 1)

\* the loop over the matches of a formula: the list pars_, or the first
\* exception; only ValueError is turned into the unknown-column exception
RECURSIVE ParseRefs(_, _, _)
ParseRefs(refs, n, colnames) ==
    IF n > Len(refs) THEN Ok(<<>>)
    ELSE LET r == parse_column_name(refs[n], colnames)
         IN  IF r.exc = "ValueError" THEN Raise("UnknownColumn")
             ELSE IF r.exc # "" THEN Raise(r.exc)
             ELSE LET rest == ParseRefs(refs, n + 1, colnames)
                  IN  IF rest.exc # "" THEN rest
                      ELSE Ok(<<r.val>> \o rest.val)


\* a faulty variant of Expression: a plain column that does not resolve is not
\* reported when the expression is built; it reads column 0 of file 0
ExpressionUnchecked(colname, colnames) ==
    IF is_column_name(colname)
    THEN LET r == parse_column_name(colname, colnames)
         IN  IF r.exc # "" THEN Ok([expr_ |-> <<>>, pars_ |-> <<0, 0>>])
             ELSE Ok([expr_ |-> <<>>, pars_ |-> r.val])
    ELSE LET r == ParseRefs(ColumnNameMatches(colname, 1), 1, colnames)
         IN  IF r.exc # "" THEN r
             ELSE Ok([expr_ |-> Template(colname, 1), pars_ |-> r.val])

\* Expression.__init__: expr_ is empty for a plain column, whose pars_ is
\* the pair (i, j); a formula keeps its template and the list of its pairs
Expression(colname, colnames) ==
    IF is_column_name(colname)
    THEN LET r == parse_column_name(colname, colnames)
         IN  IF r.exc = "ValueError" THEN Raise("UnknownColumn")
             ELSE IF r.exc # "" THEN Raise(r.exc)
             ELSE Ok([expr_ |-> <<>>, pars_ |-> r.val])
    ELSE LET r == ParseRefs(ColumnNameMatches(colname, 1), 1, colnames)
         IN  IF r.exc # "" THEN r
             ELSE Ok([expr_ |-> Template(colname, 1), pars_ |-> r.val])

\* the loop of main over options.out_cols: expr_list, or the first exception
RECURSIVE CompileAll(_, _, _)
CompileAll(specs, n, colnames) ==
    IF n > Len(specs) THEN Ok(<<>>)
    ELSE LET r == Expression(specs[n], colnames)
         IN  IF r.exc # "" THEN r
             ELSE LET rest == CompileAll(specs, n + 1, colnames)
                  IN  IF rest.exc # "" THEN rest
                      ELSE Ok(<<r.val>> \o rest.val)

----------------------------------------------------------------------------
(* Expression.run: evaluation on the rows of one match *)

\* lines[i][j]
Cell(lines, ref) ==
    IF ref[2] >= Len(At(lines, ref[1])) THEN Raise("IndexError")
    ELSE Ok(At(At(lines, ref[1]), ref[2]))

\* the cells of the references of a formula, or the first exception
RECURSIVE Cells(_, _, _)
Cells(lines, pars, n) ==
    IF n > Len(pars) THEN Ok(<<>>)
    ELSE LET r == Cell(lines, pars[n])
         IN  IF r.exc # "" THEN r
             ELSE LET rest == Cells(lines, pars, n + 1)
                  IN  IF rest.exc # "" THEN rest
                      ELSE Ok(<<r.val>> \o rest.val)

\* str.format: each "{}" in turn is replaced by the next value
RECURSIVE Format(_, _, _)
Format(template, p, vals) ==
    IF p > Len(template) THEN <<>>
    ELSE IF p < Len(template) /\ template[p] = "{" /\ template[p + 1] = "}"
         THEN Head(vals) \o Format(template, p + 2, Tail(vals))
         ELSE <<template[p]>> \o Format(template, p + 1, vals)

\* a decimal integer literal of Python 3: digits, with no leading zero
\* unless every digit is a zero
IsIntLiteral(t) ==
    /\ IsInt(t)
    /\ (Len(t) > 1 /\ t[1] = "0") => \A n \in 1..Len(t) : t[n] = "0"

\* a name, which eval looks up and, for the names of the model, does not find
IsName(t) ==
    Len(t) > 0 /\ t[1] \in Letters /\ \A n \in 1..Len(t) : t[n] \in WordChars

\* the sum of the terms from n on, or the first exception
RECURSIVE SumTerms(_, _)
SumTerms(terms, n) ==
    IF n > Len(terms) THEN Ok(0)
    ELSE IF IsName(terms[n]) THEN Raise("NameError")
    ELSE IF ~IsIntLiteral(terms[n]) THEN Raise("SyntaxError")
    ELSE LET rest == SumTerms(terms, n + 1)
         IN  IF rest.exc # "" THEN rest ELSE Ok(IntOf(terms[n]) + rest.val)

\* str(eval(text)) for the texts of the model: sums of integer literals and
\* names, without blanks
EvalStr(text) ==
    LET r == SumTerms(Split(text, "+"), 1)
    IN  IF r.exc # "" THEN r ELSE Ok(StrOf(r.val))

\* Expression.run
Run(expr, lines) ==
    IF expr.expr_ = <<>>
    THEN Cell(lines, expr.pars_)
    ELSE LET vals == Cells(lines, expr.pars_, 1)
         IN  IF vals.exc # "" THEN vals
             ELSE EvalStr(Format(expr.expr_, 1, vals.val))

\* lines = list(l[i] for i, l in zip(row_list, lines_list))
MatchedLines(row_list) == [n \in 1..Len(row_list) |-> At(lines_list[n], row_list[n])]

\* [expr.run(lines) for expr in expr_list]: the list of cells, or the
\* exception of the first expression that fails
RECURSIVE RunAll(_, _, _)
RunAll(exprs, n, lines) ==
    IF n > Len(exprs) THEN Ok(<<>>)
    ELSE LET r == Run(exprs[n], lines)
         IN  IF r.exc # "" THEN r
             ELSE LET rest == RunAll(exprs, n + 1, lines)
                  IN  IF rest.exc # "" THEN rest
                      ELSE Ok(<<r.val>> \o rest.val)

\* ','.join(out_cols) + '\n'
RECURSIVE JoinCells(_)
JoinCells(cells) ==
    IF Len(cells) = 0 THEN <<>>
    ELSE IF Len(cells) = 1 THEN cells[1]
    ELSE cells[1] \o <<",">> \o JoinCells(Tail(cells))

OutputLine(cells) == JoinCells(cells) \o <<"\n">>

\* the cells of the expressions that run before the first one that raises
RECURSIVE CellsBeforeFailure(_, _, _)
CellsBeforeFailure(exprs, n, lines) ==
    IF n > Len(exprs) THEN <<>>
    ELSE LET r == Run(exprs[n], lines)
         IN  IF r.exc # "" THEN <<>>
             ELSE <<r.val>> \o CellsBeforeFailure(exprs, n + 1, lines)

\* a faulty variant of WrittenOnFailure: each cell is written as soon as it is computed
WrittenPartialRow(exprs, lines) ==
    IF CellsBeforeFailure(exprs, 1, lines) = <<>> THEN <<>>
    ELSE <<JoinCells(CellsBeforeFailure(exprs, 1, lines))>>

\* what reaches the output file for a row one of whose expressions raises:
\* the list of cells is complete before fout.write is called, so nothing
WrittenOnFailure(exprs, lines) == <<>>

----------------------------------------------------------------------------
(* The matcher on its own: every list of tables within the bounds, each with *)
(* a header that names its join column "k", joined on 0:k 1:k ...           *)

Str(c) == <<c>>

JoinValues == {<<"1">>, <<"1", ".", "0">>, <<"a">>}

JoinHeaders == {<<Str("k"), Str("x")>>, <<Str("x"), Str("k")>>}

\* the row of a table with header h whose join cell is v
JoinRow(h, v) == [c \in 1..Len(h) |-> IF h[c] = Str("k") THEN v ELSE Str("x")]

JoinToken(i) == StrOf(i) \o <<":", "k">>

NoJoin == [given |-> FALSE, list |-> <<>>]

InitJoin ==
    \E N \in JoinFileCounts :
      \E hs \in [1..N -> JoinHeaders], ks \in [1..N -> SeqsUpTo(JoinValues, MaxRows)] :
        /\ colnames_list = hs
        /\ lines_list = [n \in 1..N |-> [r \in 1..Len(ks[n]) |-> JoinRow(hs[n], ks[n][r])]]
        /\ join = [given |-> TRUE, list |-> [n \in 1..N |-> JoinToken(n - 1)]]
        /\ join_field_list = get_field_list(N, join, hs).val
        /\ pc = "get_match_list"
        /\ ii = <<>>
        /\ match_list = <<>>
        /\ out_cols = <<>>
        /\ expr_list = <<>>
        /\ row = 0
        /\ output = <<>>
        /\ error = ""

NextJoin == MatchInit \/ MatchNotFound \/ MatchFound \/ MatchReturn

SpecJoin == InitJoin /\ [][NextJoin]_vars


----------------------------------------------------------------------------
(* The driver: main *)

\* the inputs of the driver's specification: two-column tables whose header,
\* when there is one, names the columns k and v; the last row lacks column v
MainHeaders == {<<>>, <<Str("k"), Str("v")>>}

MainRows == {<<Str("1"), Str("2")>>, <<Str("2"), Str("a")>>, <<Str("3")>>}

Token(i, name) == StrOf(i) \o <<":", name>>

\* the entries of --join: a column of each file, a file past the last one,
\* and a name no header holds
JoinTokens(N) == {Token(i, "k") : i \in 0..N} \cup {Token(0, "z")}

\* options.join: None, or at least one entry (nargs='+')
JoinOptions(N) ==
    {NoJoin} \cup {[given |-> TRUE, list |-> l] :
                      l \in SeqsUpTo(JoinTokens(N), N + 1) \ {<<>>}}

\* the values of --out-col
OutSpecs(N) ==
    { Token(1, "v"), Token(N, "k"), Token(0, "z"),
      Token(0, "v") \o <<"+">> \o Token(1, "v"),
      Token(0, "v") \o <<"+">> \o Token(N, "v") }

Init ==
    /\ pc = "read"
    /\ colnames_list = <<>>
    /\ lines_list = <<>>
    /\ join = NoJoin
    /\ join_field_list = <<>>
    /\ ii = <<>>
    /\ match_list = <<>>
    /\ out_cols = <<>>
    /\ expr_list = <<>>
    /\ row = 0
    /\ output = <<>>
    /\ error = ""

\* the loop over options.infile: parse_csv of every input file
ReadInputs ==
    /\ pc = "read"
    /\ \E N \in MainFileCounts :
         \E hs \in [1..N -> MainHeaders], ls \in [1..N -> SeqsUpTo(MainRows, MaxRows)] :
           /\ colnames_list' = hs
           /\ lines_list' = ls
    /\ pc' = "get_field_list"
    /\ UNCHANGED <<join, join_field_list, ii, match_list, out_cols, expr_list,
                   row, output, error>>

\* join_field_list = get_field_list(options.infile, options.join, colnames_list)
GetFieldList ==
    /\ pc = "get_field_list"
    /\ \E j \in JoinOptions(NumFiles) :
         LET r == get_field_list(NumFiles, j, colnames_list)
         IN  /\ join' = j
             /\ IF r.exc # ""
                THEN /\ error' = r.exc
                     /\ pc' = "failed"
                     /\ UNCHANGED join_field_list
                ELSE /\ join_field_list' = r.val
                     /\ pc' = "get_match_list"
                     /\ UNCHANGED error
    /\ UNCHANGED <<colnames_list, lines_list, ii, match_list, out_cols,
                   expr_list, row, output>>

\* the loop over options.out_cols, then open(options.outfile, 'w')
Compile ==
    /\ pc = "compile"
    /\ \E oc \in SeqsUpTo(OutSpecs(NumFiles), MaxOutCols) :
         LET r == CompileAll(oc, 1, colnames_list)
         IN  /\ out_cols' = oc
             /\ IF r.exc # ""
                THEN /\ error' = r.exc
                     /\ pc' = "failed"
                     /\ UNCHANGED expr_list
                ELSE /\ expr_list' = r.val
                     /\ pc' = "run"
                     /\ UNCHANGED error
    /\ UNCHANGED <<colnames_list, lines_list, join, join_field_list, ii,
                   match_list, row, output>>

\* one pass of the loop over match_list: evaluate every expression on the
\* rows of the match, then write the line
RunRow ==
    /\ pc = "run"
    /\ row < Len(match_list)
    /\ LET lines == MatchedLines(At(match_list, row))
           r == RunAll(expr_list, 1, lines)
       IN  IF r.exc # ""
           THEN /\ error' = r.exc
                /\ pc' = "failed"
                /\ output' = output \o WrittenOnFailure(expr_list, lines)
                /\ UNCHANGED row
           ELSE /\ output' = Append(output, OutputLine(r.val))
                /\ row' = row + 1
                /\ UNCHANGED <<pc, error>>
    /\ UNCHANGED <<colnames_list, lines_list, join, join_field_list, ii,
                   match_list, out_cols, expr_list>>

\* the loop over match_list is exhausted: the file is closed and main returns
Finish ==
    /\ pc = "run"
    /\ row = Len(match_list)
    /\ pc' = "done"
    /\ UNCHANGED <<colnames_list, lines_list, join, join_field_list, ii,
                   match_list, out_cols, expr_list, row, output, error>>

Next ==
    \/ ReadInputs
    \/ GetFieldList
    \/ MatchInit
    \/ MatchNotFound
    \/ MatchFound
    \/ MatchReturn
    \/ Compile
    \/ RunRow
    \/ Finish

Spec == Init /\ [][Next]_vars


----------------------------------------------------------------------------
(* Properties of the join matcher, checked under SpecJoin *)

RowCount(i) == Len(At(lines_list, i))

\* the matcher has been entered: the counters exist
MatcherStarted == ii # <<>>

\* C1: every emitted match tuple names, in every table, a row whose join
\* cell is the same string as the join cell of the tuple's row of table 0
C1_TuplesJoinOnEqualStrings ==
    \A n \in 1..Len(match_list) :
      \A i \in Range(NumFiles) :
        JoinCell(i, At(match_list[n], i)) = JoinCell(0, At(match_list[n], 0))

\* three tables, a tuple was emitted, and its row of table 1 was reached by
\* scanning over a row that holds the same number written differently
C1_Witness ==
    /\ NumFiles = 3
    /\ Len(match_list) >= 1
    /\ \E j \in 0 .. (At(match_list[1], 1) - 1) :
         /\ JoinCell(1, j) # JoinCell(0, At(match_list[1], 0))
         /\ Coerced(JoinCell(1, j)) = Coerced(JoinCell(0, At(match_list[1], 0)))

\* C2: the number of emitted tuples never exceeds the row count of the
\* smallest table
C2_AtMostSmallestTable ==
    \A i \in Range(NumFiles) : Len(match_list) <= RowCount(i)

\* the matcher returned as many tuples as the smallest table has rows, at
\* least one, while another table is longer
C2_Witness ==
    /\ pc = "compile"
    /\ Len(match_list) >= 1
    /\ \E i \in Range(NumFiles) : RowCount(i) = Len(match_list)
    /\ \E i \in Range(NumFiles) : RowCount(i) > Len(match_list)

\* the matcher takes no further pass of its loop
MatcherTerminal == pc = "compile" \/ ~ENABLED (MatchNotFound \/ MatchFound)

NoRowFrom(k) ==
    \A j \in At(ii, k) .. (RowCount(k) - 1) : JoinCell(k, j) # JoinCell(0, At(ii, 0))

\* C8: a pass of the loop in which some table 1..N-1 has no matching row at
\* or after its counter emits no tuple, adds one to table 0's counter and
\* leaves every other counter as it was
C8_FailedPassMovesOnlyTableZero ==
    [][ ( /\ pc = "while"
          /\ pc' = "while"
          /\ \E k \in 1 .. (NumFiles - 1) : NoRowFrom(k) )
        => ( /\ match_list' = match_list
             /\ At(ii', 0) = At(ii, 0) + 1
             /\ \A i \in 1 .. (NumFiles - 1) : At(ii', i) = At(ii, i) ) ]_vars

\* the first pass failed in table 2 after table 1 had offered a matching row
C8_Witness ==
    /\ pc = "while"
    /\ NumFiles = 3
    /\ ii = <<1, 0, 0>>
    /\ match_list = <<>>
    /\ \E j \in Range(RowCount(1)) : JoinCell(1, j) = JoinCell(0, 0)
    /\ \A j \in Range(RowCount(2)) : JoinCell(2, j) # JoinCell(0, 0)

\* C9: a pass that emits a tuple m leaves every counter at m[i] + 1; no
\* counter ever decreases; of two emitted tuples the later is greater in
\* every component, so no row of any table occurs in two tuples
C9_CountersFollowTuples ==
    /\ [][ /\ (match_list' # match_list) =>
                \A i \in Range(NumFiles) :
                  At(ii', i) = At(match_list'[Len(match_list')], i) + 1
           /\ (MatcherStarted /\ ii' # <<>>) =>
                \A i \in Range(NumFiles) : At(ii', i) >= At(ii, i) ]_vars
    /\ [](\A a, b \in 1..Len(match_list) :
            a < b => \A i \in Range(NumFiles) :
                       At(match_list[a], i) < At(match_list[b], i))

\* two tuples were emitted, and table 1 holds, before the row of the second
\* tuple, a row with the second tuple's join value
C9_Witness ==
    /\ pc = "compile"
    /\ Len(match_list) = 2
    /\ JoinCell(1, At(match_list[1], 1)) = JoinCell(0, At(match_list[2], 0))

\* the join cells of table i, in row order
JoinColumn(i) == [r \in 1..RowCount(i) |-> JoinCell(i, r - 1)]

DistinctWithin(i) ==
    \A r, t \in 1..RowCount(i) : r # t => JoinColumn(i)[r] # JoinColumn(i)[t]

\* the total orders of the join values, as rank functions
Rankings ==
    {f \in [JoinValues -> 1..Cardinality(JoinValues)] :
        \A u, v \in JoinValues : u # v => f[u] # f[v]}

\* every table lists its join values in the order of one common ranking
ConsistentOrder ==
    \E f \in Rankings :
      \A i \in Range(NumFiles) :
        \A r, t \in 1..RowCount(i) :
          r < t => f[JoinColumn(i)[r]] < f[JoinColumn(i)[t]]

InAllTables(v) ==
    \A i \in Range(NumFiles) : \E r \in 1..RowCount(i) : JoinColumn(i)[r] = v

\* the inner join on the join columns, from row r of table 0 on, in table
\* 0's row order (the join values of each table being distinct)
RECURSIVE InnerJoinFrom(_)
InnerJoinFrom(r) ==
    IF r >= RowCount(0) THEN <<>>
    ELSE LET v == JoinCell(0, r)
         IN  (IF InAllTables(v)
              THEN <<[n \in 1..NumFiles |->
                        (CHOOSE t \in 1..RowCount(n - 1) : JoinColumn(n - 1)[t] = v) - 1]>>
              ELSE <<>>) \o InnerJoinFrom(r + 1)

\* C10: when the join values of every table are distinct and all tables list
\* them in one common order, the returned list is the inner join on the
\* join columns, in table 0's row order
C10_InnerJoinOnOrderedInput ==
    (pc = "compile" /\ ConsistentOrder /\ \A i \in Range(NumFiles) : DistinctWithin(i))
      => match_list = InnerJoinFrom(0)

\* three ordered tables and a tuple that was found after a row of table 0
\* had failed and by scanning over a row of table 1
C10_Witness ==
    /\ pc = "compile"
    /\ NumFiles = 3
    /\ ConsistentOrder
    /\ \A i \in Range(NumFiles) : DistinctWithin(i)
    /\ Len(match_list) >= 1
    /\ At(match_list[1], 0) >= 1
    /\ At(match_list[1], 1) >= 1

----------------------------------------------------------------------------
(* Properties of the driver, checked under Spec *)

\* options.join and options.out_cols have been read
JoinRead == pc \notin {"read", "get_field_list"}
OutColsRead == pc \in {"run", "done"} \/ (pc = "failed" /\ MatcherStarted)

\* the file index a reference is written with
FileIndexOf(ref) == IntOf(Split(ref, ":")[1])

\* the references of an output-column specification, in the order in which
\* they are resolved
RefsOf(spec) == IF is_column_name(spec) THEN <<spec>> ELSE ColumnNameMatches(spec, 1)

\* the set of file indices the join entries reference
JoinFileIndices == {FileIndexOf(join.list[n]) : n \in 1..Len(join.list)}

\* the reference names a file that exists and a column that the file's
\* header, if it has one, does not hold
NamesAbsentColumn(ref) ==
    /\ FileIndexOf(ref) < NumFiles
    /\ \A c \in 1..Len(At(colnames_list, FileIndexOf(ref))) :
         At(colnames_list, FileIndexOf(ref))[c] # Split(ref, ":")[2]

JoinNamesAbsentColumn ==
    join.given /\ \E n \in 1..Len(join.list) : NamesAbsentColumn(join.list[n])

OutColsNameAbsentColumn ==
    \E n \in 1..Len(out_cols) :
      \E m \in 1..Len(RefsOf(out_cols[n])) : NamesAbsentColumn(RefsOf(out_cols[n])[m])

\* C3 as stated: a join spec that has not exactly one entry per input, or
\* whose file indices are not exactly 0..N-1, makes the run fail with the
\* configuration error (the assertion of get_field_list) before the matcher
\* is entered
C3_BadJoinSpecIsConfigurationError ==
    ( /\ JoinRead
      /\ join.given
      /\ (Len(join.list) # NumFiles \/ JoinFileIndices # Range(NumFiles)) )
    => (pc = "failed" /\ error = "AssertionError" /\ ~MatcherStarted)

\* C4 as stated: an output-column specification with a reference to a file
\* index >= N fails to compile with the unknown-column error
C4_FileIndexPastLastIsUnknownColumn ==
    ( /\ OutColsRead
      /\ Len(out_cols) >= 1
      /\ \E m \in 1..Len(RefsOf(out_cols[1])) :
           FileIndexOf(RefsOf(out_cols[1])[m]) >= NumFiles )
    => (pc = "failed" /\ error = "UnknownColumn")

NothingEvaluated == output = <<>> /\ row = 0 /\ error \notin {"NameError", "SyntaxError"}

EvaluationFailed == pc = "failed" /\ expr_list # <<>>

\* the cells of match tuple n (1-based), or the exception
RowResult(n) == RunAll(expr_list, 1, MatchedLines(match_list[n]))

\* C6: when an expression fails on a match tuple, the run stops there: the
\* output holds the complete lines of the tuples before it, in match order,
\* nothing of the failing tuple and nothing of a later tuple
C6_EvaluationFailureStopsTheRun ==
    EvaluationFailed =>
      /\ row < Len(match_list)
      /\ RowResult(row + 1).exc # ""
      /\ \A n \in 1..row : RowResult(n).exc = ""
      /\ output = [n \in 1..row |-> OutputLine(RowResult(n).val)]
      /\ ~ENABLED Next

\* the second tuple failed in its second expression after its first
\* expression had produced a cell, and the first tuple's line was written
C6_Witness ==
    /\ EvaluationFailed
    /\ row = 1
    /\ Len(output) = 1
    /\ Len(expr_list) = 2
    /\ Run(expr_list[1], MatchedLines(match_list[2])).exc = ""
====
